---- MODULE Spec2Model ----
(***************************************************************************)
(* Model of the proxy-pool request dispatcher of Booru-Crawling            *)
(* (src/utils/proxyhandler.py, class ProxyHandler).                        *)
(*                                                                         *)
(* Worker threads call the four dispatcher operations concurrently.  Each  *)
(* call runs _request_through_proxy: round-robin selection under           *)
(* _index_lock, the pacing gate _wait_until_allowed on the selected index, *)
(* one HTTP GET, and the classification of its outcome.  Time is a         *)
(* discrete clock that may advance between any two steps of any thread.    *)
(***************************************************************************)
EXTENDS Integers, Sequences, FiniteSets, TLC

\* ------------------------------------------------------------------ bounds
NumThreads == 2
MaxPool == 2
CallsPerThread == 2
SeqCalls == 5
MaxWait == 1
MaxTimeout == 2
Horizon == 3
\* lines of a proxy list file
MaxLines == 2
\* the pool a health check runs on, the checks made, the calls made beside them
CheckPool == 3
MaxChecks == 2
PoolCalls == 5
\* the calls of a thread that may be interrupted
CancelCalls == 3
\* download_post: the remote file's size, split_size and max_retry
MaxSize == 3
MaxSplit == 2
MaxRetry == 2
\* range-driven bulk fetch: the largest post id, the width of a bulk window
\* (20 in the source), the posts of one answer, fetch_bulk's max_retries
MaxId == 3
PER_REQUEST_POSTS == 2
MaxPosts == 2
MaxRetries == 3

Threads == 1..NumThreads

\* time() at construction: an epoch value far above any configured interval
Epoch == MaxWait + MaxTimeout + 1
MaxTime == Epoch + Horizon

\* ------------------------------------------------------------------ values
None == [kind |-> "None"]

Ops == {"get_response", "get", "filesize", "get_filepart"}
RawOps == {"get", "get_filepart"}

\* The JSON payload of the gateway's /get_response endpoint.
Null == [kind |-> "null"]
JsonText == [kind |-> "str", v |-> "{\"a\":1}"]
JsonNullText == [kind |-> "str", v |-> "null"]
PlainText == [kind |-> "str", v |-> "hello"]

\* The payload's status_code: 0 stands for a payload without the field (the
\* default of payload.get), -1 for a value int() rejects (null, or text that
\* is no number).
StatusCodes == {200, 429, 0, -1}

Payloads ==
    [kind : {"payload"}, status_code : StatusCodes, success : BOOLEAN,
     response : {Null, JsonText, JsonNullText, PlainText}]
NotJson == [kind |-> "notjson"]

\* Bodies of /file_size: text as a sequence of characters.
SizeBodies == {<<"1", "2">>, <<" ", "7", "\n">>, <<"a", "b">>, <<>>,
               <<"+", "5">>, <<"1", "_", "0">>, <<"1", " ", "2">>}
RawBody == [kind |-> "bytes"]

Bodies(o) ==
    CASE o = "get_response" -> Payloads \cup {NotJson}
      [] o = "filesize" -> [kind : {"text"}, v : SizeBodies]
      [] OTHER -> {RawBody}

Statuses(o) ==
    CASE o = "get_response" -> {200, 429}
      [] o = "filesize" -> {200, 206, 404, 429}
      [] OTHER -> {200, 206, 404, 429, 500}

Responses(o) == [kind : {"resp"}, status : Statuses(o), body : Bodies(o)]

\* What session.get does: raises, or returns a response.
Outcomes(o) == {[exc |-> TRUE, resp |-> None]}
               \cup {[exc |-> FALSE, resp |-> r] : r \in Responses(o)}

\* The operation the concurrent workers run, with one response of each kind
\* that _request_through_proxy and get_response treat differently: a gateway
\* 429, and a 200 whose payload reports status 200 or 429.
WorkerOps == {"get_response"}

CoarseResponses(o) ==
    {r \in Responses(o) :
        /\ r.body \in Payloads
        /\ r.body.status_code \in {200, 429}
        /\ r.body.success
        /\ r.body.response = JsonText
        /\ r.status = 429 => r.body.status_code = 200}

CoarseOutcomes(o) == {[exc |-> TRUE, resp |-> None]}
                     \cup {[exc |-> FALSE, resp |-> r] : r \in CoarseResponses(o)}

VARIABLES
    proxies,        \* self._proxies: the ordered list of endpoints
    current_index,  \* self._current_index
    index_lock,     \* holder of self._index_lock, 0 when free
    commit_time,    \* self._commit_time: index -> timestamp, created lazily
    wait_time,      \* self._wait_time
    timeout,        \* self._timeout
    now,            \* the clock read by _now()
    pc,             \* each thread's position in its call
    op,             \* the operation the thread is running
    idx,            \* the index _next_proxy_index returned to the thread
    until,          \* the local `until` of _wait_until_allowed
    slept,          \* whether _wait_until_allowed took the sleep branch
    outcome,        \* what the thread's session.get did
    result,         \* what the operation returned to its caller
    ncalls,         \* calls started by each thread
    \* history, written by the steps and read only by the properties
    picks,          \* the indices returned by _next_proxy_index, in lock order
    nhttp,          \* HTTP requests issued by the thread's current call
    punished,       \* indices the thread's current call punished
    seen,           \* the writer of the ledger entry the gate read
    writer,         \* per index: what wrote the current ledger entry, and when
    last_pass,      \* per index: time of the latest gate commit, 0 when none
    \* construction
    source,         \* the lines of the proxy list file, or of the proxy URL
    handler_class,  \* the class being constructed
    built,          \* "no" before __init__, then "ok" or the exception raised
    \* check()
    chk_pc,         \* position of the thread running check()
    raise_exception,\* the argument of the running check()
    probes,         \* per submitted index: Queued, or what its probe did
    failed,         \* the local list `failed`, in completion order
    removing,       \* what is left of sorted(failed, reverse=True)
    chk_result,     \* what check() returned or raised
    before,         \* history: the pool when check() was entered
    nchecks,        \* check() calls started
    sizes,          \* history: len(self._proxies) at each cursor advance
    \* download_post
    site,           \* whose download_post runs: "danbooru" or "gelbooru"
    no_split,       \* the parameter no_split
    max_retry,      \* the parameter max_retry
    split_size,     \* the parameter split_size
    remote_size,    \* the size of the file behind download_target
    save_path,      \* the file at save_path
    part_files,     \* the files at save_path.<i>, per chunk number
    filesize,       \* the local `filesize`
    current_filesize, \* the local `current_filesize`
    chunk,          \* the position in `datas` of the chunk being fetched
    attempt,        \* attempts made in the retry loop being run
    file_response,  \* the local `file_response`
    dl_pc,          \* position in download_post
    dl_result,      \* how download_post ended
    initial_size,   \* history: the size of save_path when download_post was entered
    probed,         \* history: what each filesize call gave
    requests,       \* history: the get and get_filepart calls made
    writes,         \* history: the responses written, each with its chunk
    earlier,        \* history: None, or how the run before this one left the destination
    \* range-driven bulk fetch
    min_id,         \* ns.min_id
    max_id,         \* ns.max_id
    output,         \* whether ns.output is given
    max_retries,    \* fetch_bulk's parameter max_retries
    fb_pc,          \* per bulk index: position of its fetch_bulk call
    fb_attempt,     \* per bulk index: the loop variable `attempt`
    fb_result,      \* per bulk index: what fetch_bulk returned
    all_posts,      \* the list all_posts, each post written as its id
    seen_ids,       \* the set `seen` of main
    output_file,    \* the ids written to the output file, in order
    batch_counter,  \* batch_counter
    main_pc,        \* position of the main thread
    fb_calls,       \* history, per bulk index: what each bulk_posts call did
    fb_waits        \* history, per bulk index: the seconds of each time.sleep

shared == <<proxies, current_index, index_lock, commit_time, wait_time, timeout, now>>
locals == <<pc, op, idx, until, slept, outcome, result, ncalls>>
history == <<picks, nhttp, punished, seen, writer, last_pass>>
construction == <<source, handler_class, built>>
checking == <<chk_pc, raise_exception, probes, failed, removing, chk_result, before, nchecks>>
download == <<site, no_split, max_retry, split_size, remote_size, save_path, part_files,
              filesize, current_filesize, chunk, attempt, file_response, dl_pc, dl_result,
              initial_size, probed, requests, writes, earlier>>
bulk == <<min_id, max_id, output, max_retries, fb_pc, fb_attempt, fb_result, all_posts,
          seen_ids, output_file, batch_counter, main_pc, fb_calls, fb_waits>>
vars == <<shared, locals, history, construction, checking, sizes, download, bulk>>

\* ----------------------------------------------------------------- helpers
LargestPool == IF MaxPool > CheckPool THEN MaxPool ELSE CheckPool
Indices == 0..(LargestPool - 1)
\* the ledger holds no entry for the index: nobody wrote it
Absent == [src |-> "absent", at |-> 0]

\* an exception leaving the call
Raised(e) == [kind |-> "raise", exc |-> e]

\* mutant: a key the dict does not hold reads as the present time
DictGetNow(d, k, default) == IF k \in DOMAIN d THEN d[k] ELSE now

\* dict.get(key, default)
DictGet(d, k, default) == IF k \in DOMAIN d THEN d[k] ELSE default

\* d[key] = value
DictSet(d, k, v) == [i \in DOMAIN d \cup {k} |-> IF i = k THEN v ELSE d[i]]

\* len(self)
size == Len(proxies)

\* ------------------------------------------------------- _next_proxy_index
\* mutant: the cursor is advanced and read without holding the lock
CanAcquireUnguarded == TRUE

\* `with self._index_lock`: the lock is taken only when free
CanAcquire == index_lock = 0

\* mutant: the cursor wraps only on reaching the size exactly
NextIndexWrapAtSize(cur, n) == IF cur + 1 = n THEN 0 ELSE cur + 1

\* mutant: the wrap-around is taken one position early
NextIndexEarlyWrap(cur, n) == IF cur + 1 >= n - 1 THEN 0 ELSE cur + 1

\* (self._current_index + 1) % len(self._proxies)
NextIndex(cur, n) == (cur + 1) % n

\* ----------------------------------------------------- _wait_until_allowed
\* mutant: the wait interval is not added
UntilNoWait(last_commit) == last_commit

\* until = last_commit + self._wait_time
Until(last_commit) == last_commit + wait_time

\* remaining = until - _now()
Remaining(u, t) == u - t

\* ------------------------------------------------------------ _punish_proxy
\* mutant: the punishment lasts the pacing interval instead of the timeout
PunishValueWait(t) == t + wait_time

\* mutant: the punishment records the current time only
PunishValueNoTimeout(t) == t

\* _now() + self._timeout
PunishValue(t) == t + timeout

\* --------------------------------------------------- _request_through_proxy
\* mutant: an exception returns None without punishing the index
ClassifyNoPunishOnError(out) ==
    IF out.exc THEN [punish |-> FALSE, result |-> None]
    ELSE IF out.resp.status = 429 THEN [punish |-> TRUE, result |-> None]
    ELSE [punish |-> FALSE, result |-> out.resp]

\* mutant: a gateway 429 is punished but handed to the caller
Classify429PassThrough(out) ==
    IF out.exc THEN [punish |-> TRUE, result |-> None]
    ELSE IF out.resp.status = 429 THEN [punish |-> TRUE, result |-> out.resp]
    ELSE [punish |-> FALSE, result |-> out.resp]

\* mutant: every error status is punished like a 429
ClassifyPunishErrors(out) ==
    IF out.exc THEN [punish |-> TRUE, result |-> None]
    ELSE IF out.resp.status = 429 THEN [punish |-> TRUE, result |-> None]
    ELSE [punish |-> out.resp.status >= 400, result |-> out.resp]

\* The classification of session.get's outcome: whether the index is punished
\* and what is returned, None or the pair (resp, idx), kept here as resp.
Classify(out) ==
    IF out.exc THEN [punish |-> TRUE, result |-> None]
    ELSE IF out.resp.status = 429 THEN [punish |-> TRUE, result |-> None]
    ELSE [punish |-> FALSE, result |-> out.resp]

\* ------------------------------------------------------------- get_response
\* json.loads(response_text): the decoded value, or JSONDecodeError
JsonLoads(text) ==
    IF text = JsonText THEN [ok |-> TRUE, value |-> [kind |-> "dict", a |-> 1]]
    ELSE IF text = JsonNullText THEN [ok |-> TRUE, value |-> None]
    ELSE [ok |-> FALSE, value |-> None]

\* int(payload.get("status_code", 0)): the integer, or ValueError / TypeError
StatusCodeInt(payload) ==
    IF payload.status_code = -1 THEN [ok |-> FALSE, value |-> 0]
    ELSE [ok |-> TRUE, value |-> payload.status_code]

\* the success branch of get_response: the decoded response, the response as
\* it is when it is no JSON, or None
SuccessValue(payload) ==
    LET decoded == JsonLoads(payload.response)
    IN IF payload.success /\ payload.response # Null
       THEN IF decoded.ok THEN decoded.value ELSE payload.response
       ELSE None

\* mutant: a payload reporting 429 is punished and discarded
GetResponseDiscardOn429(resp) ==
    IF resp.body.kind # "payload" THEN [punish |-> FALSE, value |-> None]
    ELSE LET payload == resp.body
             code == StatusCodeInt(payload)
         IN IF ~code.ok THEN [punish |-> FALSE, value |-> None]
            ELSE [punish |-> code.value = 429,
                  value |-> IF code.value = 429 THEN None ELSE SuccessValue(payload)]

\* mutant: the success flag is not consulted
GetResponseIgnoreSuccess(resp) ==
    IF resp.body.kind # "payload" THEN [punish |-> FALSE, value |-> None]
    ELSE LET payload == resp.body
             code == StatusCodeInt(payload)
         IN IF ~code.ok THEN [punish |-> FALSE, value |-> None]
            ELSE [punish |-> code.value = 429,
                  value |-> SuccessValue([payload EXCEPT !.success = TRUE])]

\* The body of get_response after the gateway call returned (resp, idx),
\* under suppress(ValueError, KeyError, TypeError): whether idx is punished
\* once more, and the value returned.
GetResponsePayload(resp) ==
    IF resp.body.kind # "payload" THEN [punish |-> FALSE, value |-> None]
    ELSE LET payload == resp.body
             code == StatusCodeInt(payload)
         IN IF ~code.ok THEN [punish |-> FALSE, value |-> None]
            ELSE [punish |-> code.value = 429, value |-> SuccessValue(payload)]

\* ----------------------------------------------------------------- filesize
Whitespace == {" ", "\n", "\t", "\r"}
DigitChars == <<"0", "1", "2", "3", "4", "5", "6", "7", "8", "9">>

RECURSIVE LStrip(_)
LStrip(s) == IF s # <<>> /\ Head(s) \in Whitespace THEN LStrip(Tail(s)) ELSE s

RECURSIVE RStrip(_)
RStrip(s) ==
    IF s # <<>> /\ s[Len(s)] \in Whitespace
    THEN RStrip(SubSeq(s, 1, Len(s) - 1)) ELSE s

\* str.strip()
Strip(s) == RStrip(LStrip(s))

IsDigit(c) == \E i \in 1..10 : DigitChars[i] = c
DigitVal(c) == (CHOOSE i \in 1..10 : DigitChars[i] = c) - 1

RECURSIVE DecimalValue(_)
DecimalValue(s) ==
    IF s = <<>> THEN 0
    ELSE 10 * DecimalValue(SubSeq(s, 1, Len(s) - 1)) + DigitVal(s[Len(s)])

\* the digits of a literal, its underscores dropped
OnlyDigits(s) == SelectSeq(s, IsDigit)

\* digits, single underscores allowed between them
IsDigitGroup(s) ==
    /\ s # <<>>
    /\ IsDigit(s[1])
    /\ IsDigit(s[Len(s)])
    /\ \A i \in 1..Len(s) : IsDigit(s[i]) \/ s[i] = "_"
    /\ \A i \in 1..(Len(s) - 1) : ~(s[i] = "_" /\ s[i + 1] = "_")

\* int(text) in base 10: an optional sign and a digit group give the integer,
\* anything else ValueError
ParseInt(s) ==
    LET signed == s # <<>> /\ s[1] \in {"+", "-"}
        digits == IF signed THEN Tail(s) ELSE s
        magnitude == DecimalValue(OnlyDigits(digits))
    IN IF IsDigitGroup(digits)
       THEN [ok |-> TRUE,
             value |-> [kind |-> "int",
                        v |-> IF signed /\ s[1] = "-" THEN 0 - magnitude ELSE magnitude]]
       ELSE [ok |-> FALSE, value |-> None]

\* mutant: only status 200 is accepted
FilesizeValueOnly200(resp) ==
    IF resp.status = 200
    THEN LET parsed == ParseInt(Strip(resp.body.v))
         IN IF parsed.ok THEN parsed.value ELSE None
    ELSE None

\* The body of filesize after the gateway call returned (resp, idx).
FilesizeValue(resp) ==
    IF resp.status \in {200, 206}
    THEN LET parsed == ParseInt(Strip(resp.body.v))
         IN IF parsed.ok THEN parsed.value ELSE None
    ELSE None

\* ------------------------------------------------------ get and get_filepart
\* result[0] if result is not None else None
RawValue(resp) == resp

\* What operation o does with the result of _request_through_proxy.
Finish(o, res) ==
    IF res = None THEN [punish |-> FALSE, value |-> None]
    ELSE CASE o = "get_response" -> GetResponsePayload(res)
           [] o = "filesize" -> [punish |-> FALSE, value |-> FilesizeValue(res)]
           [] OTHER -> [punish |-> FALSE, value |-> RawValue(res)]

\* -------------------------------------------------------------------- Init
\* The state after ProxyHandler.__init__: a non-empty pool, the cursor at -1,
\* an empty ledger, the lock free.
\* ------------------------------------------------------- _load_proxy_list
Http == <<"h", "t", "t", "p">>
HttpPrefix == <<"h", "t", "t", "p", ":", "/", "/">>
\* the default of the port parameter, as f":{port}" writes it
PortSuffix == <<":", "8", "0", "0", "0">>

\* the raw lines a proxy list may hold, line ends dropped
RawLines ==
    { <<>>,
      <<" ", "\t">>,
      <<"a">>,
      <<" ", "b", ":", "9", " ">>,
      <<"h", "t", "t", "p", ":", "/", "/", "c">>,
      <<"h", "t", "t", "p", "s", ":", "/", "/", "d", ":", "1", "/">>,
      <<"e", "/">> }

Sources == UNION {[1..k -> RawLines] : k \in 0..MaxLines}

\* the hosts of the pools the dispatcher runs on, one line each
HostChars == <<"a", "b", "c", "d">>
HostSource(n) == [i \in 1..n |-> <<HostChars[i]>>]

\* str.startswith, str.endswith, `c in s`
StartsWith(s, prefix) == Len(s) >= Len(prefix) /\ SubSeq(s, 1, Len(prefix)) = prefix
EndsWith(s, suffix) ==
    Len(s) >= Len(suffix) /\ SubSeq(s, Len(s) - Len(suffix) + 1, Len(s)) = suffix
Contains(s, c) == \E i \in 1..Len(s) : s[i] = c

\* proxy.split("//", 1)[-1]: what follows the first "//", the whole string
\* when there is none
AfterDoubleSlash(s) ==
    LET hits == {i \in 1..(Len(s) - 1) : s[i] = "/" /\ s[i + 1] = "/"}
    IN IF hits = {} THEN s
       ELSE LET first == CHOOSE i \in hits : \A j \in hits : i <= j
            IN SubSeq(s, first + 2, Len(s))

\* one stripped, non-empty line made a base URL
Normalise(proxy) ==
    LET schemed == IF StartsWith(proxy, Http) THEN proxy ELSE HttpPrefix \o proxy
        ported == IF Contains(AfterDoubleSlash(schemed), ":") THEN schemed
                  ELSE schemed \o PortSuffix
    IN IF EndsWith(ported, <<"/">>) THEN ported ELSE ported \o <<"/">>

\* ProxyHandler._load_proxy_list: blank lines skipped, the others normalised
RECURSIVE LoadProxyList(_)
LoadProxyList(lines) ==
    IF lines = <<>> THEN <<>>
    ELSE LET proxy == Strip(Head(lines))
             rest == LoadProxyList(Tail(lines))
         IN IF proxy = <<>> THEN rest ELSE <<Normalise(proxy)>> \o rest

\* the text io.StringIO(proxy_url).read() gives
RECURSIVE Join(_)
Join(lines) ==
    IF lines = <<>> THEN <<>>
    ELSE IF Len(lines) = 1 THEN lines[1]
    ELSE Head(lines) \o <<"\n">> \o Join(Tail(lines))

\* SingleProxyHandler._load_proxy_list: ValueError on an empty URL
SingleLoadProxyList(lines) ==
    LET proxy_raw == Strip(Join(lines))
    IN IF proxy_raw = <<>> THEN [ok |-> FALSE, value |-> <<>>]
       ELSE [ok |-> TRUE, value |-> <<Normalise(proxy_raw)>>]

\* mutant: the constructor accepts whatever the loader returned
RejectsNothing(loaded) == FALSE

\* `if not self._proxies: raise ValueError("Proxy list empty")`
RejectsEmpty(loaded) == loaded = <<>>

\* ----------------------------------------------------------------- initial
\* the fields __init__ sets after the list is loaded, and every thread idle
Fresh ==
    /\ current_index = -1
    /\ index_lock = 0
    /\ commit_time = <<>>
    /\ wait_time \in 0..MaxWait
    /\ timeout \in 1..MaxTimeout
    /\ now = Epoch
    /\ pc = [t \in Threads |-> "idle"]
    /\ op = [t \in Threads |-> "get"]
    /\ idx = [t \in Threads |-> 0]
    /\ until = [t \in Threads |-> 0]
    /\ slept = [t \in Threads |-> FALSE]
    /\ outcome = [t \in Threads |-> [exc |-> FALSE, resp |-> None]]
    /\ result = [t \in Threads |-> None]
    /\ ncalls = [t \in Threads |-> 0]
    /\ picks = <<>>
    /\ nhttp = [t \in Threads |-> 0]
    /\ punished = [t \in Threads |-> {}]
    /\ seen = [t \in Threads |-> Absent]
    /\ writer = [i \in Indices |-> Absent]
    /\ last_pass = [i \in Indices |-> 0]
    /\ chk_pc = "idle"
    /\ raise_exception = FALSE
    /\ probes = <<>>
    /\ failed = <<>>
    /\ removing = <<>>
    /\ chk_result = None
    /\ before = <<>>
    /\ nchecks = 0
    /\ sizes = <<>>

\* a file that does not exist, a file and its bytes
Missing == [kind |-> "missing"]
File(bytes) == [kind |-> "file", bytes |-> bytes]

\* no download_post has been called: its locals are unset, no file is there
NotCalled ==
    /\ filesize = None
    /\ current_filesize = 0
    /\ chunk = 0
    /\ attempt = 0
    /\ file_response = None
    /\ dl_pc = "idle"
    /\ dl_result = "none"
    /\ probed = <<>>
    /\ requests = <<>>
    /\ writes = <<>>
    /\ earlier = None

\* the dispatcher specifications download nothing
NoDownload ==
    /\ site = "danbooru"
    /\ no_split = FALSE
    /\ max_retry = 1
    /\ split_size = 1
    /\ remote_size = 0
    /\ save_path = Missing
    /\ part_files = <<>>
    /\ initial_size = 0
    /\ NotCalled

\* no range-driven fetch is run
NoBulk ==
    /\ min_id = 1
    /\ max_id = 1
    /\ output = FALSE
    /\ max_retries = 0
    /\ fb_pc = <<>>
    /\ fb_attempt = <<>>
    /\ fb_result = <<>>
    /\ all_posts = <<>>
    /\ seen_ids = {}
    /\ output_file = <<>>
    /\ batch_counter = 0
    /\ main_pc = "idle"
    /\ fb_calls = <<>>
    /\ fb_waits = <<>>

\* A handler constructed from a list of n hosts; endpoint i of the pool
\* stands for the base URL made of line i.
Built(n) ==
    /\ source = HostSource(n)
    /\ proxies = [i \in 1..n |-> i]
    /\ handler_class = "ProxyHandler"
    /\ built = "ok"

Init == (\E n \in 1..MaxPool : Built(n)) /\ Fresh /\ NoDownload /\ NoBulk

\* The handler a health check runs on.
InitPool == (\E n \in 1..CheckPool : Built(n)) /\ Fresh /\ NoDownload /\ NoBulk

\* Before construction: any source, either class.
InitLoad ==
    /\ source \in Sources
    /\ handler_class \in {"ProxyHandler", "SingleProxyHandler"}
    /\ built = "no"
    /\ proxies = <<>>
    /\ Fresh
    /\ NoDownload
    /\ NoBulk

\* ----------------------------------------------------------------- actions
\* A worker calls one of the four operations; _request_through_proxy starts
\* with `if not self._proxies: return None`.
Call(t, o) ==
    /\ pc[t] \in {"idle", "done", "raised"}
    /\ ncalls' = [ncalls EXCEPT ![t] = @ + 1]
    /\ op' = [op EXCEPT ![t] = o]
    /\ idx' = [idx EXCEPT ![t] = 0]
    /\ until' = [until EXCEPT ![t] = 0]
    /\ slept' = [slept EXCEPT ![t] = FALSE]
    /\ outcome' = [outcome EXCEPT ![t] = [exc |-> FALSE, resp |-> None]]
    /\ result' = [result EXCEPT ![t] = None]
    /\ nhttp' = [nhttp EXCEPT ![t] = 0]
    /\ punished' = [punished EXCEPT ![t] = {}]
    /\ seen' = [seen EXCEPT ![t] = Absent]
    /\ pc' = [pc EXCEPT ![t] = IF Len(proxies) = 0 THEN "done" ELSE "lock"]
    /\ UNCHANGED <<shared, picks, writer, last_pass>>
    /\ UNCHANGED <<construction, checking, sizes, download, bulk>>

\* _next_proxy_index: enter `with self._index_lock:` and advance the cursor,
\* self._current_index = (self._current_index + 1) % len(self._proxies)
Advance(t) ==
    /\ pc[t] = "lock"
    /\ CanAcquire
    /\ IF Len(proxies) = 0
       THEN \* the modulo raises and the with block releases the lock
            /\ result' = [result EXCEPT ![t] = Raised("ZeroDivisionError")]
            /\ pc' = [pc EXCEPT ![t] = "raised"]
            /\ UNCHANGED <<index_lock, current_index, sizes>>
       ELSE /\ index_lock' = t
            /\ current_index' = NextIndex(current_index, Len(proxies))
            /\ sizes' = Append(sizes, Len(proxies))
            /\ pc' = [pc EXCEPT ![t] = "return"]
            /\ UNCHANGED result
    /\ UNCHANGED <<proxies, commit_time, wait_time, timeout, now>>
    /\ UNCHANGED <<op, idx, until, slept, outcome, ncalls, history>>
    /\ UNCHANGED <<construction, checking, download, bulk>>

\* _next_proxy_index: return self._current_index, leaving the with block
Release(t) ==
    /\ pc[t] = "return"
    /\ idx' = [idx EXCEPT ![t] = current_index]
    /\ index_lock' = 0
    /\ picks' = Append(picks, current_index)
    /\ pc' = [pc EXCEPT ![t] = "gate"]
    /\ UNCHANGED <<proxies, current_index, commit_time, wait_time, timeout, now>>
    /\ UNCHANGED <<op, until, slept, outcome, result, ncalls>>
    /\ UNCHANGED <<nhttp, punished, seen, writer, last_pass>>
    /\ UNCHANGED <<construction, checking, sizes, download, bulk>>

\* _wait_until_allowed: read the ledger, compute until and remaining, and
\* take the sleep branch when remaining > 0.  The local `until` is kept only
\* while the sleep needs it.
GateRead(t) ==
    /\ pc[t] = "gate"
    /\ LET last_commit == DictGet(commit_time, idx[t], 0)
           u == Until(last_commit)
           remaining == Remaining(u, now)
       IN /\ until' = [until EXCEPT ![t] = IF remaining > 0 THEN u ELSE 0]
          /\ slept' = [slept EXCEPT ![t] = remaining > 0]
          /\ pc' = [pc EXCEPT ![t] = IF remaining > 0 THEN "sleep" ELSE "commit"]
    /\ seen' = [seen EXCEPT ![t] = writer[idx[t]]]
    /\ UNCHANGED <<shared, op, idx, outcome, result, ncalls>>
    /\ UNCHANGED <<picks, nhttp, punished, writer, last_pass>>
    /\ UNCHANGED <<construction, checking, sizes, download, bulk>>

\* _wait_until_allowed: sleep(remaining) returns once remaining has elapsed
Wake(t) ==
    /\ pc[t] = "sleep"
    /\ now >= until[t]
    /\ until' = [until EXCEPT ![t] = 0]
    /\ pc' = [pc EXCEPT ![t] = "commit"]
    /\ UNCHANGED <<shared, op, idx, slept, outcome, result, ncalls, history>>
    /\ UNCHANGED <<construction, checking, sizes, download, bulk>>

\* _wait_until_allowed: self._commit_time[idx] = _now(); the caller then
\* reads self._proxies[idx], IndexError when the list has become shorter, and
\* issues session.get through it
Commit(t) ==
    /\ pc[t] = "commit"
    /\ commit_time' = DictSet(commit_time, idx[t], now)
    /\ writer' = [writer EXCEPT ![idx[t]] = [src |-> "commit", at |-> now]]
    /\ last_pass' = [last_pass EXCEPT ![idx[t]] = now]
    /\ IF idx[t] < Len(proxies)
       THEN /\ nhttp' = [nhttp EXCEPT ![t] = @ + 1]
            /\ pc' = [pc EXCEPT ![t] = "http"]
            /\ UNCHANGED result
       ELSE /\ result' = [result EXCEPT ![t] = Raised("IndexError")]
            /\ pc' = [pc EXCEPT ![t] = "raised"]
            /\ UNCHANGED nhttp
    /\ UNCHANGED <<proxies, current_index, index_lock, wait_time, timeout, now>>
    /\ UNCHANGED <<op, idx, until, slept, outcome, ncalls>>
    /\ UNCHANGED <<picks, punished, seen>>
    /\ UNCHANGED <<construction, checking, sizes, download, bulk>>

\* session.get raises or answers; _request_through_proxy classifies the
\* outcome and the operation finishes with what it was handed.
Respond(t, out) ==
    /\ pc[t] = "http"
    /\    LET cls == Classify(out)
              fin == Finish(op[t], cls.result)
              punish == cls.punish \/ fin.punish
          IN /\ outcome' = [outcome EXCEPT ![t] = out]
             /\ result' = [result EXCEPT ![t] = fin.value]
             /\ commit_time' = IF punish
                               THEN DictSet(commit_time, idx[t], PunishValue(now))
                               ELSE commit_time
             /\ writer' = IF punish
                          THEN [writer EXCEPT ![idx[t]] =
                                   [src |-> "punish", at |-> now]]
                          ELSE writer
             /\ punished' = IF punish
                            THEN [punished EXCEPT ![t] = @ \cup {idx[t]}]
                            ELSE punished
    /\ pc' = [pc EXCEPT ![t] = "done"]
    /\ UNCHANGED <<proxies, current_index, index_lock, wait_time, timeout, now>>
    /\ UNCHANGED <<op, idx, until, slept, ncalls>>
    /\ UNCHANGED <<picks, nhttp, seen, last_pass>>
    /\ UNCHANGED <<construction, checking, sizes, download, bulk>>

\* time passes
Tick ==
    /\ now < MaxTime
    /\ now' = now + 1
    /\ UNCHANGED <<proxies, current_index, index_lock, commit_time, wait_time, timeout>>
    /\ UNCHANGED <<locals, history>>
    /\ UNCHANGED <<construction, checking, sizes, download, bulk>>

Next ==
    \/ \E t \in Threads, o \in WorkerOps : ncalls[t] < CallsPerThread /\ Call(t, o)
    \/ \E t \in Threads : Advance(t)
    \/ \E t \in Threads : Release(t)
    \/ \E t \in Threads : GateRead(t)
    \/ \E t \in Threads : Wake(t)
    \/ \E t \in Threads : Commit(t)
    \/ \E t \in Threads : \E out \in CoarseOutcomes(op[t]) : Respond(t, out)
    \/ Tick

\* Concurrent workers; each HTTP call raises or answers one of CoarseResponses.
Spec == Init /\ [][Next]_vars

\* One worker making its calls in sequence, every response the gateway can give.
NextOps ==
    \/ \E o \in Ops : ncalls[1] < SeqCalls /\ Call(1, o)
    \/ Advance(1)
    \/ Release(1)
    \/ GateRead(1)
    \/ Wake(1)
    \/ Commit(1)
    \/ \E out \in Outcomes(op[1]) : Respond(1, out)
    \/ Tick

SpecOps == Init /\ [][NextOps]_vars

\* __init__: load the list, refuse an empty one
Construct ==
    /\ built = "no"
    /\ LET loaded == IF handler_class = "SingleProxyHandler" THEN SingleLoadProxyList(source)
                     ELSE [ok |-> TRUE, value |-> LoadProxyList(source)]
       IN IF loaded.ok /\ ~RejectsEmpty(loaded.value)
          THEN /\ proxies' = loaded.value
               /\ built' = "ok"
          ELSE /\ proxies' = proxies
               /\ built' = "ValueError"
    /\ UNCHANGED <<current_index, index_lock, commit_time, wait_time, timeout, now>>
    /\ UNCHANGED <<locals, history, source, handler_class, checking, sizes, download, bulk>>

NextLoad == Construct

SpecLoad == InitLoad /\ [][NextLoad]_vars

\* ------------------------------------------------------------------ check()
\* what a probe's session.get(proxy_base, timeout=5) can do
ProbeOutcomes ==
    {[kind |-> "probe", exc |-> TRUE, status |-> 0]}
    \cup {[kind |-> "probe", exc |-> FALSE, status |-> c] : c \in {200, 206, 404, 429}}

\* the probes offered beside a running dispatcher: one healthy, one not
CoarseProbeOutcomes == {out \in ProbeOutcomes : out.exc \/ out.status = 200}

\* a probe that has not completed
Queued == [kind |-> "queued"]

\* mutant: only status 200 counts as healthy
CheckSingleOnly200(out) == ~out.exc /\ out.status = 200

\* _check_single: healthy on status 200 or 206, not on another status or an
\* exception
CheckSingle(out) == ~out.exc /\ out.status \in {200, 206}

\* mutant: the failed indices are deleted in ascending order
RECURSIVE SortedForward(_)
SortedForward(S) ==
    IF S = {} THEN <<>>
    ELSE LET low == CHOOSE i \in S : \A j \in S : i <= j
         IN <<low>> \o SortedForward(S \ {low})

\* sorted(failed, reverse=True)
RECURSIVE SortedReverse(_)
SortedReverse(S) ==
    IF S = {} THEN <<>>
    ELSE LET top == CHOOSE i \in S : \A j \in S : j <= i
         IN <<top>> \o SortedReverse(S \ {top})

\* del lst[i], i counted from 0
Del(lst, i) == SubSeq(lst, 1, i) \o SubSeq(lst, i + 2, Len(lst))

Range(f) == {f[i] : i \in DOMAIN f}

\* mutant: an emptied pool is returned like any other
CheckOutcomeNoExhaustion(re, failed_list, pool) ==
    IF re /\ failed_list # <<>>
    THEN [kind |-> "raise", exc |-> "RuntimeError", msg |-> "not working"]
    ELSE [kind |-> "list", v |-> failed_list]

\* the end of check(): the two raises, or the list of failed indices
CheckOutcome(re, failed_list, pool) ==
    IF re /\ failed_list # <<>>
    THEN [kind |-> "raise", exc |-> "RuntimeError", msg |-> "not working"]
    ELSE IF pool = <<>>
    THEN [kind |-> "raise", exc |-> "RuntimeError", msg |-> "No proxies available after check"]
    ELSE [kind |-> "list", v |-> failed_list]

\* check(raise_exception): one probe is submitted for every index of the pool
CheckStart(re) ==
    /\ chk_pc \in {"idle", "returned", "raised"}
    /\ nchecks < MaxChecks
    /\ nchecks' = nchecks + 1
    /\ raise_exception' = re
    /\ probes' = [i \in 0..(Len(proxies) - 1) |-> Queued]
    /\ failed' = <<>>
    /\ removing' = <<>>
    /\ chk_result' = None
    /\ before' = proxies
    /\ chk_pc' = "scan"
    /\ UNCHANGED <<shared, locals, history, construction, sizes, download, bulk>>

\* one probe completes, in any order; as_completed hands it to the loop,
\* which appends a failed index to `failed`
Probe(i, out) ==
    /\ chk_pc = "scan"
    /\ i \in DOMAIN probes
    /\ probes[i] = Queued
    /\ probes' = [probes EXCEPT ![i] = out]
    /\ failed' = IF CheckSingle(out) THEN failed ELSE Append(failed, i)
    /\ UNCHANGED <<chk_pc, raise_exception, removing, chk_result, before, nchecks>>
    /\ UNCHANGED <<shared, locals, history, construction, sizes, download, bulk>>

\* mutant: the removal starts while probes are still in flight
ScanEndEarly ==
    /\ chk_pc = "scan"
    /\ failed # <<>>
    /\ removing' = SortedReverse(Range(failed))
    /\ chk_pc' = "remove"
    /\ UNCHANGED <<raise_exception, probes, failed, chk_result, before, nchecks>>
    /\ UNCHANGED <<shared, locals, history, construction, sizes, download, bulk>>

\* every future has completed: the executor is left and the failed indices
\* are sorted for removal
ScanEnd ==
    /\ chk_pc = "scan"
    /\ \A i \in DOMAIN probes : probes[i] # Queued
    /\ removing' = SortedReverse(Range(failed))
    /\ chk_pc' = "remove"
    /\ UNCHANGED <<raise_exception, probes, failed, chk_result, before, nchecks>>
    /\ UNCHANGED <<shared, locals, history, construction, sizes, download, bulk>>

\* del self._proxies[idx], one failed index at a time; no lock is taken
Remove ==
    /\ chk_pc = "remove"
    /\ removing # <<>>
    /\ proxies' = Del(proxies, Head(removing))
    /\ removing' = Tail(removing)
    /\ UNCHANGED <<chk_pc, raise_exception, probes, failed, chk_result, before, nchecks>>
    /\ UNCHANGED <<current_index, index_lock, commit_time, wait_time, timeout, now>>
    /\ UNCHANGED <<locals, history, construction, sizes, download, bulk>>

\* check() raises or returns `failed`
CheckFinish ==
    /\ chk_pc = "remove"
    /\ removing = <<>>
    /\ chk_result' = CheckOutcome(raise_exception, failed, proxies)
    /\ chk_pc' = IF chk_result'.kind = "raise" THEN "raised" ELSE "returned"
    /\ UNCHANGED <<raise_exception, probes, failed, removing, before, nchecks>>
    /\ UNCHANGED <<shared, locals, history, construction, sizes, download, bulk>>

\* ------------------------------------------------------------ cancellation
\* the classes `except Exception` catches
ExceptionClasses ==
    {"RequestException", "IndexError", "ZeroDivisionError", "ValueError", "RuntimeError"}

\* mutant: the handler catches every exception
CatchesAll(e) == TRUE

\* `except Exception as exc` in _request_through_proxy
Catches(e) == e \in ExceptionClasses

\* history: the call was interrupted
Cancelled == [exc |-> TRUE, resp |-> None, by |-> "KeyboardInterrupt"]

\* KeyboardInterrupt is raised in the thread while it sleeps in
\* _wait_until_allowed, outside any try block, or while it is in session.get,
\* inside `try: ... except Exception`
Interrupt(t) ==
    /\ pc[t] \in {"sleep", "http"}
    /\ IF pc[t] = "http" /\ Catches("KeyboardInterrupt")
       THEN /\ commit_time' = DictSet(commit_time, idx[t], PunishValue(now))
            /\ writer' = [writer EXCEPT ![idx[t]] = [src |-> "punish", at |-> now]]
            /\ punished' = [punished EXCEPT ![t] = @ \cup {idx[t]}]
            /\ result' = [result EXCEPT ![t] = None]
            /\ pc' = [pc EXCEPT ![t] = "done"]
       ELSE /\ result' = [result EXCEPT ![t] = Raised("KeyboardInterrupt")]
            /\ pc' = [pc EXCEPT ![t] = "raised"]
            /\ UNCHANGED <<commit_time, writer, punished>>
    /\ outcome' = [outcome EXCEPT ![t] = Cancelled]
    /\ until' = [until EXCEPT ![t] = 0]
    /\ UNCHANGED <<proxies, current_index, index_lock, wait_time, timeout, now>>
    /\ UNCHANGED <<op, idx, slept, ncalls>>
    /\ UNCHANGED <<picks, nhttp, seen, last_pass>>
    /\ UNCHANGED <<construction, checking, sizes, download, bulk>>

\* One thread makes its calls while health checks run beside it, all within
\* one reading of the clock: a call that has to sleep stays asleep.
NextPool ==
    \/ \E o \in WorkerOps : ncalls[1] < PoolCalls /\ Call(1, o)
    \/ Advance(1)
    \/ Release(1)
    \/ GateRead(1)
    \/ Commit(1)
    \/ \E out \in CoarseOutcomes(op[1]) : Respond(1, out)
    \/ \E re \in BOOLEAN : CheckStart(re)
    \/ \E i \in 0..(CheckPool - 1), out \in CoarseProbeOutcomes : Probe(i, out)
    \/ ScanEnd
    \/ Remove
    \/ CheckFinish

SpecPool == InitPool /\ [][NextPool]_vars

\* Health checks alone, every answer a probe can get.
NextCheck ==
    \/ \E re \in BOOLEAN : CheckStart(re)
    \/ \E i \in 0..(CheckPool - 1), out \in ProbeOutcomes : Probe(i, out)
    \/ ScanEnd
    \/ Remove
    \/ CheckFinish

SpecCheck == InitPool /\ [][NextCheck]_vars

\* The main thread makes its calls and may be interrupted while it sleeps or
\* waits for the gateway.
NextCancel ==
    \/ \E o \in WorkerOps : ncalls[1] < CancelCalls /\ Call(1, o)
    \/ Advance(1)
    \/ Release(1)
    \/ GateRead(1)
    \/ Wake(1)
    \/ Commit(1)
    \/ \E out \in CoarseOutcomes(op[1]) : Respond(1, out)
    \/ Interrupt(1)
    \/ Tick

SpecCancel == Init /\ [][NextCancel]_vars

\* ------------------------------------------------------------ download_post
Sites == {"danbooru", "gelbooru"}

\* gelbooru's limit on the size of a file it downloads
MAX_FILE_SIZE == 30000000

Min(a, b) == IF a < b THEN a ELSE b

\* the bytes of the remote file from position start on, n of them
Bytes(start, n) == [i \in 1..n |-> start + i - 1]

\* os.path.exists, os.path.getsize
Exists(f) == f # Missing
Size(f) == Len(f.bytes)

\* mutant: the last chunk is not cut at the end of the file
DatasUnclamped(fs, ss) ==
    [j \in 1..((fs + ss - 1) \div ss) |-> <<(j - 1) * ss, (j - 1) * ss + ss>>]

\* for i in range(0, filesize, split_size):
\*     datas.append((i, min(filesize, i + split_size)))
Datas(fs, ss) ==
    [j \in 1..((fs + ss - 1) \div ss) |-> <<(j - 1) * ss, Min(fs, (j - 1) * ss + ss)>>]

\* data[1] - data[0]
Width(data) == data[2] - data[1]

\* what proxyhandler.filesize can do: raise, return None, return the size
SizeResults ==
    {[exc |-> TRUE, value |-> None], [exc |-> FALSE, value |-> None],
     [exc |-> FALSE, value |-> [kind |-> "int", v |-> remote_size]]}

\* the responses get_filepart can return for a range of width bytes: the
\* Content-Length header and the body are each the width or one byte short
RangeResponses(start, width) ==
    {[kind |-> "resp", status |-> st, content_length |-> c, content |-> Bytes(start, b)] :
        st \in {200, 206}, c \in {width, width - 1}, b \in {width, width - 1}}
    \cup {[kind |-> "resp", status |-> 404, content_length |-> 0, content |-> <<>>]}

\* the responses get can return for a file of n bytes; content_length -1
\* stands for a response without the header
WholeResponses(n) ==
    {[kind |-> "resp", status |-> st, content_length |-> c, content |-> Bytes(0, b)] :
        st \in {200, 206},
        c \in {n, -1} \cup (IF n > 0 THEN {n - 1} ELSE {}),
        b \in {n} \cup (IF n > 0 THEN {n - 1} ELSE {})}
    \cup {[kind |-> "resp", status |-> 404, content_length |-> 0, content |-> <<>>]}

\* a dispatcher call raises, returns None or returns one of the responses
Fetched(responses) ==
    {[exc |-> TRUE, resp |-> None], [exc |-> FALSE, resp |-> None]}
    \cup {[exc |-> FALSE, resp |-> r] : r \in responses}

\* bool(response): requests takes a response for true when its status is
\* below 400
Truthy(r) == r # None /\ r.status < 400

\* the statuses on which a retry loop breaks
GoodStatuses == IF site = "danbooru" THEN {200, 206} ELSE {200}

\* `if file_response and file_response.status_code in ...: break`
Breaks(r) == Truthy(r) /\ r.status \in GoodStatuses

\* mutant: the probing loop goes on until it has a value
SizeLoopUntilValue(value, i) == value # None

\* mutant: the probing loop has no break
SizeLoopNoBreak(value, i) == i + 1 >= max_retry

\* the filesize loop is left on the first value or after max_retry rounds
SizeLoopOver(value, i) == value # None \/ i + 1 >= max_retry

\* the early return on a destination that is already there: danbooru keeps
\* a file that opens as an image, gelbooru any file that is not empty
AlreadyThere(valid) ==
    /\ Exists(save_path)
    /\ IF site = "danbooru" THEN valid ELSE Size(save_path) # 0

\* the chunk loop's `continue`: the chunk starts below current_filesize, or
\* (gelbooru) its part file is there with the right size
Skips(j, datas, cur, parts) ==
    \/ datas[j + 1][1] < cur
    \/ /\ site = "gelbooru"
       /\ Exists(parts[j])
       /\ Size(parts[j]) = Width(datas[j + 1])

\* the first chunk from j on that the loop does not skip, Len(datas) if none
RECURSIVE FirstFetch(_, _, _, _)
FirstFetch(j, datas, cur, parts) ==
    IF j >= Len(datas) THEN Len(datas)
    ELSE IF Skips(j, datas, cur, parts) THEN FirstFetch(j + 1, datas, cur, parts)
    ELSE j

\* The chunk loop goes on from chunk j: to the next chunk it has to fetch,
\* whose ill-sized part file gelbooru removes and whose file_response
\* gelbooru resets, or past the last chunk.
EnterChunk(j, datas, cur, parts, resp) ==
    LET k == FirstFetch(j, datas, cur, parts)
    IN /\ chunk' = k
       /\ attempt' = 0
       /\ IF k < Len(datas)
          THEN /\ dl_pc' = "chunk"
               /\ part_files' = IF site = "gelbooru"
                                THEN [parts EXCEPT ![k] = Missing] ELSE parts
               /\ file_response' = IF site = "gelbooru" THEN None ELSE resp
          ELSE /\ dl_pc' = "assemble"
               /\ part_files' = parts
               /\ file_response' = resp

\* the part files 0 .. n-1 one after the other
RECURSIVE ConcatParts(_, _, _)
ConcatParts(parts, j, n) ==
    IF j >= n THEN <<>> ELSE parts[j].bytes \o ConcatParts(parts, j + 1, n)

\* mutant: the Content-Length of a chunk is not looked at
LengthAny(resp, width) == TRUE

\* int(file_response.headers.get('Content-Length')) == data[1] - data[0]
LengthMatches(resp, width) == resp.content_length = width

\* download_post is entered: the checks on a destination that exists
DlStart(valid) ==
    /\ dl_pc = "idle"
    /\ IF AlreadyThere(valid)
       THEN /\ dl_pc' = "done"
            /\ dl_result' = "skipped"
            /\ UNCHANGED save_path
       ELSE /\ dl_pc' = "probe"
            /\ save_path' = IF site = "danbooru" THEN Missing ELSE save_path
            /\ UNCHANGED dl_result
    /\ UNCHANGED <<site, no_split, max_retry, split_size, remote_size, part_files,
                   filesize, current_filesize, chunk, attempt, file_response,
                   initial_size, probed, requests, writes, earlier>>
    /\ UNCHANGED <<shared, locals, history, construction, checking, sizes, bulk>>

\* download_post is called again for the post whose split download has just
\* succeeded: its locals are new, the files are what the first run left
DlAgain(valid) ==
    /\ dl_pc = "done"
    /\ dl_result = "ok"
    /\ ~no_split
    /\ earlier = None
    /\ earlier' = [kind |-> "run", file |-> save_path, size |-> filesize.v]
    /\ initial_size' = Size(save_path)
    /\ IF AlreadyThere(valid)
       THEN /\ dl_pc' = "done"
            /\ dl_result' = "skipped"
            /\ UNCHANGED save_path
       ELSE /\ dl_pc' = "probe"
            /\ dl_result' = "none"
            /\ save_path' = IF site = "danbooru" THEN Missing ELSE save_path
    /\ filesize' = None
    /\ current_filesize' = 0
    /\ chunk' = 0
    /\ attempt' = 0
    /\ file_response' = None
    /\ probed' = <<>>
    /\ requests' = <<>>
    /\ writes' = <<>>
    /\ UNCHANGED <<site, no_split, max_retry, split_size, remote_size, part_files>>
    /\ UNCHANGED <<shared, locals, history, construction, checking, sizes, bulk>>

\* one round of the filesize loop; once the loop is over, the return on a
\* missing size, the check of a destination that exists against the size,
\* and the way into the whole-file loop or the chunk loop
ProbeSize(out) ==
    /\ dl_pc = "probe"
    /\ LET value == IF out.exc THEN None ELSE out.value
       IN /\ probed' = Append(probed, value)
          /\ filesize' = value
          /\ IF ~SizeLoopOver(value, attempt)
             THEN /\ attempt' = attempt + 1
                  /\ UNCHANGED <<save_path, part_files, current_filesize, chunk,
                                 file_response, dl_pc, dl_result>>
             ELSE IF value = None \/ (site = "gelbooru" /\ value.v > MAX_FILE_SIZE)
             THEN /\ dl_pc' = "done"
                  /\ dl_result' = "failed"
                  /\ attempt' = attempt + 1
                  /\ UNCHANGED <<save_path, part_files, current_filesize, chunk,
                                 file_response>>
             ELSE IF Exists(save_path) /\ Size(save_path) = value.v
             THEN /\ dl_pc' = "done"
                  /\ dl_result' = "skipped"
                  /\ attempt' = 0
                  /\ UNCHANGED <<save_path, part_files, current_filesize, chunk,
                                 file_response>>
             ELSE IF no_split
             THEN /\ dl_pc' = "whole"
                  /\ save_path' = Missing
                  /\ file_response' = None
                  /\ attempt' = 0
                  /\ UNCHANGED <<part_files, current_filesize, chunk, dl_result>>
             ELSE \* the destination, if it was there, has been removed
                  /\ current_filesize' = 0
                  /\ save_path' = IF site = "danbooru" THEN File(<<>>) ELSE Missing
                  /\ EnterChunk(0, Datas(value.v, split_size), 0, part_files, file_response)
                  /\ UNCHANGED dl_result
    /\ UNCHANGED <<site, no_split, max_retry, split_size, remote_size, initial_size,
                   requests, writes, earlier>>
    /\ UNCHANGED <<shared, locals, history, construction, checking, sizes, bulk>>

\* one round of the retry loop of the current chunk; once the loop is over,
\* the checks of status and Content-Length and the write of the chunk
FetchPart(out) ==
    /\ dl_pc = "chunk"
    /\ LET datas == Datas(filesize.v, split_size)
           data == datas[chunk + 1]
           resp == IF out.exc THEN file_response ELSE out.resp
           over == (~out.exc /\ Breaks(out.resp)) \/ attempt + 1 >= max_retry
       IN /\ requests' = Append(requests, [op |-> "get_filepart",
                                           start |-> data[1], end |-> data[2] - 1])
          /\ IF ~over
             THEN /\ attempt' = attempt + 1
                  /\ file_response' = resp
                  /\ UNCHANGED <<save_path, part_files, chunk, dl_pc, dl_result, writes>>
             ELSE IF resp = None \/ resp.status # 200 \/ ~LengthMatches(resp, Width(data))
             THEN /\ dl_pc' = "done"
                  /\ dl_result' = "failed"
                  /\ attempt' = attempt + 1
                  /\ file_response' = resp
                  /\ UNCHANGED <<save_path, part_files, chunk, writes>>
             ELSE /\ writes' = Append(writes, [op |-> "get_filepart", chunk |-> chunk,
                                               width |-> Width(data), resp |-> resp])
                  /\ save_path' = IF site = "danbooru"
                                  THEN File(save_path.bytes \o resp.content)
                                  ELSE save_path
                  /\ LET written == IF site = "danbooru" THEN part_files
                                    ELSE [part_files EXCEPT ![chunk] =
                                             IF Len(resp.content) = Width(data)
                                             THEN File(resp.content) ELSE Missing]
                     IN EnterChunk(chunk + 1, datas, current_filesize, written, resp)
                  /\ UNCHANGED dl_result
    /\ UNCHANGED <<site, no_split, max_retry, split_size, remote_size, filesize,
                   current_filesize, initial_size, probed, earlier>>
    /\ UNCHANGED <<shared, locals, history, construction, checking, sizes, bulk>>

\* after the chunk loop: gelbooru merges the part files into the destination,
\* FileNotFoundError when one is missing; both compare the size of the
\* destination with filesize and remove it when they differ
Assemble ==
    /\ dl_pc = "assemble"
    /\ dl_pc' = "done"
    /\ LET n == Len(Datas(filesize.v, split_size))
           missing == {j \in 0..(n - 1) : ~Exists(part_files[j])}
       IN IF site = "danbooru"
          THEN /\ save_path' = IF Size(save_path) # filesize.v THEN Missing ELSE save_path
               /\ dl_result' = IF Size(save_path) # filesize.v THEN "failed" ELSE "ok"
               /\ UNCHANGED part_files
          ELSE IF missing # {}
          THEN LET first == CHOOSE j \in missing : \A i \in missing : j <= i
               IN /\ save_path' = File(ConcatParts(part_files, 0, first))
                  /\ dl_result' = "raised"
                  /\ UNCHANGED part_files
          ELSE LET merged == ConcatParts(part_files, 0, n)
               IN IF Len(merged) # filesize.v
                  THEN /\ save_path' = Missing
                       /\ dl_result' = "failed"
                       /\ UNCHANGED part_files
                  ELSE /\ save_path' = File(merged)
                       /\ dl_result' = "ok"
                       /\ part_files' = [j \in DOMAIN part_files |->
                                            IF j < n THEN Missing ELSE part_files[j]]
    /\ UNCHANGED <<site, no_split, max_retry, split_size, remote_size, filesize,
                   current_filesize, chunk, attempt, file_response, initial_size,
                   probed, requests, writes, earlier>>
    /\ UNCHANGED <<shared, locals, history, construction, checking, sizes, bulk>>

\* no_split: what is done about a body whose length differs from the
\* Content-Length header: danbooru prints a warning, gelbooru returns
WholeRefused(resp) ==
    /\ site = "gelbooru"
    /\ resp.content_length # -1
    /\ resp.content_length # Len(resp.content)

\* one round of the no_split retry loop; once the loop is over, the check of
\* the status, the comparison of the body with Content-Length, and the write
FetchWhole(out) ==
    /\ dl_pc = "whole"
    /\ LET resp == IF out.exc THEN file_response ELSE out.resp
           over == (~out.exc /\ Breaks(out.resp)) \/ attempt + 1 >= max_retry
       IN /\ requests' = Append(requests, [op |-> "get"])
          /\ file_response' = resp
          /\ IF ~over
             THEN /\ attempt' = attempt + 1
                  /\ UNCHANGED <<save_path, dl_pc, dl_result, writes>>
             ELSE /\ dl_pc' = "done"
                  /\ attempt' = attempt + 1
                  /\ IF resp = None \/ resp.status \notin GoodStatuses
                     THEN /\ dl_result' = "failed"
                          /\ UNCHANGED <<save_path, writes>>
                     ELSE IF site = "gelbooru" /\ resp.content_length = -1
                     THEN \* int(None) raises TypeError
                          /\ dl_result' = "raised"
                          /\ UNCHANGED <<save_path, writes>>
                     ELSE IF WholeRefused(resp)
                     THEN /\ dl_result' = "failed"
                          /\ UNCHANGED <<save_path, writes>>
                     ELSE /\ dl_result' = "ok"
                          /\ save_path' = File(resp.content)
                          /\ writes' = Append(writes, [op |-> "get", chunk |-> 0,
                                                       width |-> Len(resp.content),
                                                       resp |-> resp])
    /\ UNCHANGED <<site, no_split, max_retry, split_size, remote_size, part_files,
                   filesize, current_filesize, chunk, initial_size, probed, earlier>>
    /\ UNCHANGED <<shared, locals, history, construction, checking, sizes, bulk>>

\* the part files an earlier run may have left: none, or one chunk's, whole
\* or empty
PartStates(rs, ss) ==
    LET datas == Datas(rs, ss)
        none == [j \in 0..(MaxSize - 1) |-> Missing]
    IN {none}
       \cup {[none EXCEPT ![j] = File(Bytes(datas[j + 1][1], Width(datas[j + 1])))] :
               j \in 0..(Len(datas) - 1)}
       \cup {[none EXCEPT ![j] = File(<<>>)] : j \in 0..(Len(datas) - 1)}

\* the responses to a request for the chunk being fetched
CurrentRange ==
    IF dl_pc = "chunk"
    THEN LET data == Datas(filesize.v, split_size)[chunk + 1]
         IN RangeResponses(data[1], Width(data))
    ELSE {}

\* download_post is about to be called for one post: its parameters, the
\* remote file, and what an earlier run left at the destination
InitDownload ==
    /\ Built(1)
    /\ Fresh
    /\ site \in Sites
    /\ no_split \in BOOLEAN
    /\ max_retry \in 1..MaxRetry
    /\ split_size \in 1..MaxSplit
    /\ remote_size \in 0..MaxSize
    /\ save_path \in {Missing} \cup {File(Bytes(0, l)) : l \in 0..MaxSize}
    /\ initial_size = IF Exists(save_path) THEN Size(save_path) ELSE 0
    /\ part_files \in IF site = "gelbooru" /\ ~no_split
                      THEN PartStates(remote_size, split_size)
                      ELSE {[j \in 0..(MaxSize - 1) |-> Missing]}
    /\ NotCalled
    /\ NoBulk

NextDownload ==
    \/ \E valid \in BOOLEAN : DlStart(valid)
    \/ \E valid \in BOOLEAN : DlAgain(valid)
    \/ \E out \in SizeResults : ProbeSize(out)
    \/ \E out \in Fetched(CurrentRange) : FetchPart(out)
    \/ \E out \in Fetched(WholeResponses(remote_size)) : FetchWhole(out)
    \/ Assemble

SpecDownload == InitDownload /\ [][NextDownload]_vars

\* download_post runs on: every dispatcher call it makes comes back
SpecDownloadLive == SpecDownload /\ WF_vars(NextDownload)

\* ------------------------------------------------- range-driven bulk fetch
\* a post without an id: p.get("id") is None
NoId == -1

\* list(range(ns.min_id, ns.max_id + 1, PER_REQUEST_POSTS))
BulkIndices(lo, hi) ==
    {i \in lo..hi : (i - lo) % PER_REQUEST_POSTS = 0}

\* the ids of the posts an answer can hold: any id, in or out of the range,
\* or none
PostIds == 0..MaxId \cup {NoId}

\* what client.bulk_posts can do: raise (_get raises RequestException when
\* get_response returned None) or return a list of posts
BulkOutcomes ==
    {[exc |-> TRUE, posts |-> <<>>]}
    \cup {[exc |-> FALSE, posts |-> ps] :
            ps \in UNION {[1..n -> PostIds] : n \in 0..MaxPosts}}

\* mutant: every wait is one second
BackoffFixed(a) == 1

\* wait_time = 2 ** attempt
Backoff(a) == 2 ^ a

\* mutant: an id is kept whenever it lies in the range
KeepsInRange(pid, seen_set) == min_id <= pid /\ pid <= max_id

\* mutant: an id is kept whenever it has not been seen
KeepsUnseen(pid, seen_set) == pid \notin seen_set

\* `if pid not in seen and ns.min_id <= pid <= ns.max_id`
Keeps(pid, seen_set) == pid \notin seen_set /\ min_id <= pid /\ pid <= max_id

\* the loop `for p in posts` from post k on: the lists and the set after it,
\* and whether the comparison of a missing id with ns.min_id raised
RECURSIVE ForPosts(_, _, _, _, _)
ForPosts(posts, k, all, seen_set, file) ==
    IF k > Len(posts)
    THEN [all |-> all, seen |-> seen_set, file |-> file, raised |-> FALSE]
    ELSE IF posts[k] = NoId
    THEN [all |-> all, seen |-> seen_set, file |-> file, raised |-> TRUE]
    ELSE IF Keeps(posts[k], seen_set)
    THEN ForPosts(posts, k + 1, Append(all, posts[k]), seen_set \cup {posts[k]},
                  IF output THEN Append(file, posts[k]) ELSE file)
    ELSE ForPosts(posts, k + 1, all, seen_set, file)

\* one round of fetch_bulk's loop: bulk_posts returns and so does fetch_bulk,
\* or it raises and fetch_bulk goes to sleep or, after the last attempt,
\* returns []
BulkPosts(w, out) ==
    /\ w \in DOMAIN fb_pc
    /\ fb_pc[w] = "loop"
    /\ fb_attempt[w] < max_retries
    /\ fb_calls' = [fb_calls EXCEPT ![w] = Append(@, out)]
    /\ IF ~out.exc
       THEN /\ fb_result' = [fb_result EXCEPT ![w] = out.posts]
            /\ fb_pc' = [fb_pc EXCEPT ![w] = "returned"]
       ELSE IF fb_attempt[w] < max_retries - 1
       THEN /\ fb_pc' = [fb_pc EXCEPT ![w] = "sleep"]
            /\ UNCHANGED fb_result
       ELSE /\ fb_result' = [fb_result EXCEPT ![w] = <<>>]
            /\ fb_pc' = [fb_pc EXCEPT ![w] = "returned"]
    /\ UNCHANGED <<min_id, max_id, output, max_retries, fb_attempt, all_posts, seen_ids,
                   output_file, batch_counter, main_pc, fb_waits>>
    /\ UNCHANGED <<shared, locals, history, construction, checking, sizes, download>>

\* time.sleep(wait_time) returns and the loop goes to its next round
Slept(w) ==
    /\ w \in DOMAIN fb_pc
    /\ fb_pc[w] = "sleep"
    /\ fb_waits' = [fb_waits EXCEPT ![w] = Append(@, Backoff(fb_attempt[w]))]
    /\ fb_attempt' = [fb_attempt EXCEPT ![w] = @ + 1]
    /\ fb_pc' = [fb_pc EXCEPT ![w] = "loop"]
    /\ UNCHANGED <<min_id, max_id, output, max_retries, fb_result, all_posts, seen_ids,
                   output_file, batch_counter, main_pc, fb_calls>>
    /\ UNCHANGED <<shared, locals, history, construction, checking, sizes, download>>

\* range(max_retries) is exhausted without a round: the `return []` after
\* the loop
LoopEnd(w) ==
    /\ w \in DOMAIN fb_pc
    /\ fb_pc[w] = "loop"
    /\ fb_attempt[w] >= max_retries
    /\ fb_result' = [fb_result EXCEPT ![w] = <<>>]
    /\ fb_pc' = [fb_pc EXCEPT ![w] = "returned"]
    /\ UNCHANGED <<min_id, max_id, output, max_retries, fb_attempt, all_posts, seen_ids,
                   output_file, batch_counter, main_pc, fb_calls, fb_waits>>
    /\ UNCHANGED <<shared, locals, history, construction, checking, sizes, download>>

\* as_completed hands the main thread a future that is done: its posts are
\* gone through under seen_lock; a post without id ends main with TypeError
Collect(w) ==
    /\ main_pc = "collect"
    /\ w \in DOMAIN fb_pc
    /\ fb_pc[w] = "returned"
    /\ LET r == ForPosts(fb_result[w], 1, all_posts, seen_ids, output_file)
       IN /\ all_posts' = r.all
          /\ seen_ids' = r.seen
          /\ output_file' = r.file
          /\ batch_counter' = IF r.raised THEN batch_counter ELSE batch_counter + 1
          /\ main_pc' = IF r.raised THEN "raised" ELSE main_pc
    /\ fb_pc' = [fb_pc EXCEPT ![w] = "collected"]
    /\ UNCHANGED <<min_id, max_id, output, max_retries, fb_attempt, fb_result,
                   fb_calls, fb_waits>>
    /\ UNCHANGED <<shared, locals, history, construction, checking, sizes, download>>

\* every future has been handed over: the executor is left and the output
\* file closed
Close ==
    /\ main_pc = "collect"
    /\ \A w \in DOMAIN fb_pc : fb_pc[w] = "collected"
    /\ main_pc' = "done"
    /\ UNCHANGED <<min_id, max_id, output, max_retries, fb_pc, fb_attempt, fb_result,
                   all_posts, seen_ids, output_file, batch_counter, fb_calls, fb_waits>>
    /\ UNCHANGED <<shared, locals, history, construction, checking, sizes, download>>

\* main has submitted one fetch_bulk per bulk index
InitBulk ==
    /\ Built(1)
    /\ Fresh
    /\ NoDownload
    /\ min_id \in 1..MaxId
    /\ max_id \in 1..MaxId
    /\ output \in BOOLEAN
    /\ max_retries \in 0..MaxRetries
    /\ fb_pc = [w \in BulkIndices(min_id, max_id) |-> "loop"]
    /\ fb_attempt = [w \in BulkIndices(min_id, max_id) |-> 0]
    /\ fb_result = [w \in BulkIndices(min_id, max_id) |-> <<>>]
    /\ fb_calls = [w \in BulkIndices(min_id, max_id) |-> <<>>]
    /\ fb_waits = [w \in BulkIndices(min_id, max_id) |-> <<>>]
    /\ all_posts = <<>>
    /\ seen_ids = {}
    /\ output_file = <<>>
    /\ batch_counter = 0
    /\ main_pc = "collect"

NextBulk ==
    \/ \E w \in 1..MaxId, out \in BulkOutcomes : BulkPosts(w, out)
    \/ \E w \in 1..MaxId : Slept(w)
    \/ \E w \in 1..MaxId : LoopEnd(w)
    \/ \E w \in 1..MaxId : Collect(w)
    \/ Close

SpecBulk == InitBulk /\ [][NextBulk]_vars

\* ------------------------------------------------------------------ claims
\* a thread's gate commits in this step
GatePass(t) == pc[t] = "commit" /\ pc'[t] = "http"

\* a thread's gate reads the ledger in this step
GateEnter(t) == pc[t] = "gate" /\ pc'[t] # "gate"

\* a thread's operation returns in this step
Returns(t) == pc[t] = "http" /\ pc'[t] = "done"

RECURSIVE Sum(_, _)
Sum(f, S) ==
    IF S = {} THEN 0
    ELSE LET t == CHOOSE x \in S : TRUE IN f[t] + Sum(f, S \ {t})

\* calls of t whose cursor advance has happened
Advanced(t) == ncalls[t] - (IF pc[t] = "lock" THEN 1 ELSE 0)

\* calls of t to which _next_proxy_index has returned
Selected(t) == Advanced(t) - (IF pc[t] = "return" THEN 1 ELSE 0)

\* occurrences of index i in a sequence of indices
Count(seq, i) == Cardinality({k \in 1..Len(seq) : seq[k] = i})

\* occurrences of index i in n sequential round-robin calls on a pool of size
RoundRobinCount(n, i) == Cardinality({k \in 1..n : (k - 1) % size = i})

\* C1: any two passes of the pacing gate of one proxy index, and so any two
\* HTTP requests issued through it, are at least wait_time apart, whatever
\* the interleaving of the callers.
C1_GateExclusive ==
    [][\A t \in Threads :
          (GatePass(t) /\ last_pass[idx[t]] # 0)
              => now - last_pass[idx[t]] >= wait_time]_vars

\* C2: concurrent _next_proxy_index calls are serialized: the number of
\* selections made equals the number of calls that came back from it, the
\* cursor has advanced once per call, and the multiset of returned indices is
\* that of as many sequential round-robin calls.
C2_SelectionsSerialized ==
    /\ Len(picks) = Sum([t \in Threads |-> Selected(t)], Threads)
    /\ LET advances == Sum([t \in Threads |-> Advanced(t)], Threads)
       IN current_index = IF advances = 0 THEN -1 ELSE (advances - 1) % size
    /\ \A i \in Indices : Count(picks, i) = RoundRobinCount(Len(picks), i)

\* C2 witness: two threads have each completed CallsPerThread calls on a pool of two
C2_Witness ==
    /\ size = 2
    /\ \A t \in Threads : ncalls[t] = CallsPerThread /\ pc[t] = "done"
    /\ Len(picks) = NumThreads * CallsPerThread

\* C3: with a pool of N > 0 proxies, size() is N and the k-th call of a single
\* thread gets index (k-1) mod N; any N consecutive calls visit every index
\* exactly once.
C3_RoundRobinOrder ==
    /\ size \in 1..MaxPool
    /\ \A k \in 1..Len(picks) : picks[k] = (k - 1) % size
    /\ \A k \in 1..Len(picks) :
          k + size - 1 <= Len(picks) =>
              \A i \in 0..(size - 1) :
                  Cardinality({j \in k..(k + size - 1) : picks[j] = i}) = 1

\* C3 witness: a pool of two used in the order 0,1,0,1,0
C3_Witness == size = 2 /\ picks = <<0, 1, 0, 1, 0>>

\* C4: a gate that reads the entry an earlier gate committed on the same
\* index does not return before wait_time has passed since that commit.
C4_SecondWaitBlocks ==
    [][\A t \in Threads :
          (GatePass(t) /\ seen[t].src = "commit")
              => now >= seen[t].at + wait_time]_vars

\* C4 witness: one thread, alone, called twice; its second gate slept on the
\* entry its first gate committed and has returned
C4_Witness ==
    \E t \in Threads :
        /\ \A u \in Threads \ {t} : ncalls[u] = 0
        /\ ncalls[t] = 2
        /\ pc[t] = "http"
        /\ seen[t].src = "commit"
        /\ slept[t]
        /\ wait_time > 0

\* C5: with wait_time < timeout, a gate that reads the entry a punishment
\* wrote does not return before timeout has passed since the punishment.
C5_PunishThenWaitBlocks ==
    [][\A t \in Threads :
          (GatePass(t) /\ seen[t].src = "punish" /\ wait_time < timeout)
              => now >= seen[t].at + timeout]_vars

\* C5 witness: a gate slept on a punished entry and has returned
C5_Witness ==
    \E t \in Threads :
        /\ pc[t] = "http"
        /\ seen[t].src = "punish"
        /\ slept[t]
        /\ wait_time < timeout

C7_TransportFailure ==
    \A t \in Threads :
        (pc[t] = "done" /\ outcome[t].exc)
            => /\ result[t] = None
               /\ punished[t] = {idx[t]}
               /\ nhttp[t] = 1

\* C7 witness: a filesize call whose HTTP request raised has returned
C7_Witness ==
    \E t \in Threads : pc[t] = "done" /\ outcome[t].exc /\ op[t] = "filesize"

\* C8: when the gateway answers 429, every operation returns None and has
\* punished the selected index.
C8_Gateway429 ==
    \A t \in Threads :
        (pc[t] = "done" /\ ~outcome[t].exc /\ outcome[t].resp # None
                        /\ outcome[t].resp.status = 429)
            => /\ result[t] = None
               /\ punished[t] = {idx[t]}

\* C8 witness: a get call answered 429 has returned
C8_Witness ==
    \E t \in Threads :
        /\ pc[t] = "done"
        /\ op[t] = "get"
        /\ outcome[t].resp # None
        /\ outcome[t].resp.status = 429

\* a get_response call of t returned on a decoded payload reporting status 429
Payload429(t) ==
    /\ pc[t] = "done"
    /\ op[t] = "get_response"
    /\ outcome[t].resp # None
    /\ outcome[t].resp.status # 429
    /\ outcome[t].resp.body.kind = "payload"
    /\ outcome[t].resp.body.status_code = 429

C10_OtherStatusPassThrough ==
    [][\A t \in Threads :
          (Returns(t) /\ op[t] \in RawOps /\ ~outcome'[t].exc
                      /\ outcome'[t].resp.status # 429)
              => /\ result'[t] = outcome'[t].resp
                 /\ punished'[t] = {}
                 /\ commit_time' = commit_time]_vars

\* C10 witness: a get_filepart call answered 404 returned that response, the
\* ledger entry of its index still being the gate's commit
C10_Witness ==
    \E t \in Threads :
        /\ pc[t] = "done"
        /\ op[t] = "get_filepart"
        /\ outcome[t].resp # None
        /\ outcome[t].resp.status = 404
        /\ result[t] = outcome[t].resp
        /\ writer[idx[t]].src = "commit"

\* a get_response call has returned and the gateway call behind it succeeded
\* with a payload that reads as one: no exception, a status other than 429, a
\* JSON object whose status_code int() accepts
GatewayOk(t) ==
    /\ pc[t] = "done"
    /\ op[t] = "get_response"
    /\ ~outcome[t].exc
    /\ outcome[t].resp # None
    /\ outcome[t].resp.status # 429
    /\ outcome[t].resp.body.kind = "payload"
    /\ outcome[t].resp.body.status_code # -1

ExpectedSize(body) ==
    CASE body = <<"1", "2">> -> [kind |-> "int", v |-> 12]
      [] body = <<" ", "7", "\n">> -> [kind |-> "int", v |-> 7]
      [] body = <<"+", "5">> -> [kind |-> "int", v |-> 5]
      [] body = <<"1", "_", "0">> -> [kind |-> "int", v |-> 10]
      [] OTHER -> None

AllBlank(lines) == \A i \in 1..Len(lines) : \A j \in 1..Len(lines[i]) : lines[i][j] \in Whitespace

\* C20: constructing a handler from a source that is empty or holds only
\* blank lines fails with ValueError and leaves no pool; a handler that was
\* constructed has a pool of at least one endpoint.
C20_EmptySourceRejected ==
    /\ (built # "no" /\ AllBlank(source)) => (built = "ValueError" /\ proxies = <<>>)
    /\ built = "ok" => Len(proxies) > 0

\* C20 witness: a file of two blank lines was refused
C20_Witness ==
    /\ built = "ValueError"
    /\ handler_class = "ProxyHandler"
    /\ source = << <<>>, <<" ", "\t">> >>

\* check() has raised or returned
CheckDone == chk_pc \in {"returned", "raised"}

\* the indices whose probe did not answer 200 or 206
Unhealthy ==
    {i \in DOMAIN probes : probes[i].exc \/ probes[i].status \notin {200, 206}}

\* the entries of lst at the positions (from 0) outside drop, in order
RECURSIVE Survivors(_, _, _)
Survivors(lst, drop, from) ==
    IF from >= Len(lst) THEN <<>>
    ELSE (IF from \in drop THEN <<>> ELSE <<lst[from + 1]>>)
         \o Survivors(lst, drop, from + 1)

\* C13: when check() is over the endpoints removed are exactly those at the
\* indices whose probe did not answer 200 or 206, the size is the old size
\* minus their number, and a check() that returns returns those indices, each
\* once.
C13_CheckRemovesFailed ==
    CheckDone =>
        /\ proxies = Survivors(before, Unhealthy, 0)
        /\ Len(proxies) = Len(before) - Cardinality(Unhealthy)
        /\ chk_pc = "returned" =>
              /\ chk_result.kind = "list"
              /\ Range(chk_result.v) = Unhealthy
              /\ Len(chk_result.v) = Cardinality(Unhealthy)

\* C13 witness: of three proxies the one at index 1 failed; check() returned
\* [1] and two are left
C13_Witness ==
    /\ chk_pc = "returned"
    /\ before = <<1, 2, 3>>
    /\ chk_result = [kind |-> "list", v |-> <<1>>]
    /\ proxies = <<1, 3>>

\* C14: a check() called with raise_exception false raises "No proxies
\* available after check" exactly when no probe answered 200 or 206, and
\* returns otherwise.
C14_ExhaustedIffAllFail ==
    (CheckDone /\ ~raise_exception) =>
        /\ (chk_pc = "raised") <=> (Unhealthy = DOMAIN probes)
        /\ chk_pc = "raised" =>
              chk_result = [kind |-> "raise", exc |-> "RuntimeError",
                            msg |-> "No proxies available after check"]

\* C14 witness: all three probes failed and check() raised
C14_Witness ==
    /\ chk_pc = "raised"
    /\ ~raise_exception
    /\ Len(before) = 3
    /\ Unhealthy = {0, 1, 2}
    /\ chk_result.msg = "No proxies available after check"

\* C15: a constructed handler always holds at least one proxy, also after a
\* check() in which every probe failed.
C15_PoolNonEmpty == built = "ok" => Len(proxies) > 0

\* a call that found the pool empty: it returned without any request
EmptyPoolCall(t) == pc[t] = "done" /\ nhttp[t] = 0

\* C16: a call made on an empty pool does not end in the None a transport
\* failure gives, but in an error of its own.
C16_ExhaustionSurfaced ==
    \A t \in Threads : EmptyPoolCall(t) => result[t] # None

\* C17: no call looks up self._proxies with an index the list no longer has.
C17_LookupInRange ==
    \A t \in Threads : ~(pc[t] = "raised" /\ result[t] = Raised("IndexError"))

\* C18: once the pool is smaller than it was constructed, every index
\* _next_proxy_index returns lies below the size M the pool had at that
\* advance, and M advances in a row over a pool of M visit each index once.
C18_ShrunkRoundRobin ==
    \A j \in 1..Len(picks) :
        LET M == sizes[j]
        IN M < Len(source) =>
              /\ picks[j] \in 0..(M - 1)
              /\ (j + M - 1 <= Len(picks) /\ sizes[j + M - 1] = M)
                    => {picks[k] : k \in j..(j + M - 1)} = 0..(M - 1)

\* C18 witness: the cursor stood at 2 when the pool went from three to two;
\* the next two picks were 1 and 0
C18_Witness ==
    /\ sizes = <<3, 3, 3, 2, 2>>
    /\ picks = <<0, 1, 2, 1, 0>>

\* C19: a call interrupted by KeyboardInterrupt, in the pacing sleep or in
\* the HTTP call, ends with that exception: it returns no None and punishes
\* no proxy.
C19_InterruptPropagates ==
    \A t \in Threads :
        outcome[t] = Cancelled =>
            /\ pc[t] = "raised"
            /\ result[t] = Raised("KeyboardInterrupt")
            /\ punished[t] = {}

\* C19 witness: the interrupt came during the HTTP call, after the gate's
\* commit, and the ledger entry is still that commit
C19_Witness ==
    \E t \in Threads :
        /\ outcome[t] = Cancelled
        /\ nhttp[t] = 1
        /\ result[t] = Raised("KeyboardInterrupt")
        /\ writer[idx[t]].src = "commit"

\* scheme://host:port/ : a scheme, an authority made of a host without ":"
\* or "/", a ":" and a port of digits, and one "/" that ends the URL
IsBaseUrl(u) ==
    \E scheme \in {HttpPrefix, <<"h", "t", "t", "p", "s", ":", "/", "/">>} :
        /\ StartsWith(u, scheme)
        /\ LET rest == SubSeq(u, Len(scheme) + 1, Len(u))
           IN \E c \in 2..(Len(rest) - 2) :
                 /\ rest[c] = ":"
                 /\ \A i \in 1..(c - 1) : rest[i] \notin {":", "/"}
                 /\ \A i \in (c + 1)..(Len(rest) - 1) : IsDigit(rest[i])
                 /\ rest[Len(rest)] = "/"

\* C21: every non-blank line of the source is loaded as a base URL of the
\* form scheme://host:port/, whether or not it came with a scheme, a port or
\* a trailing slash.
C21_CanonicalBaseUrl ==
    built = "ok" => \A i \in 1..Len(proxies) : IsBaseUrl(proxies[i])

\* C30: after a punishment of index i at time t no request is sent through
\* i before t + timeout, whatever the interleaving: a gate commits on an index
\* whose ledger entry a punishment wrote only once timeout has passed since.
C30_NoDispatchWhilePunished ==
    [][\A t \in Threads :
          (GatePass(t) /\ writer[idx[t]].src = "punish")
              => now >= writer[idx[t]].at + timeout]_vars

\* the ranged download failed while it was fetching a chunk
ChunkFailed ==
    /\ dl_pc = "done"
    /\ dl_result = "failed"
    /\ ~no_split
    /\ filesize # None
    /\ chunk < Len(Datas(filesize.v, split_size))

\* the chunk the ranged download was fetching
CurrentData == Datas(filesize.v, split_size)[chunk + 1]

\* C22: the chunks of a file of filesize bytes start at 0, follow each other
\* without gap or overlap, are between 1 and split_size bytes wide and end at
\* filesize; every get_filepart call asks for one of them, from its start to
\* its end minus one.
C22_ChunksPartition ==
    (filesize # None /\ ~no_split) =>
        LET datas == Datas(filesize.v, split_size)
            n == Len(datas)
        IN /\ (n = 0) <=> (filesize.v = 0)
           /\ n > 0 => (datas[1][1] = 0 /\ datas[n][2] = filesize.v)
           /\ \A j \in 1..n : Width(datas[j]) >= 1 /\ Width(datas[j]) <= split_size
           /\ \A j \in 1..(n - 1) : datas[j][2] = datas[j + 1][1]
           /\ \A i \in 1..Len(requests) :
                 \E j \in 1..n : /\ requests[i].start = datas[j][1]
                                 /\ requests[i].end = datas[j][2] - 1

\* C22 witness: of a file of 3 bytes cut at 2 the last chunk, one byte wide,
\* was asked for as the range 2..2
C22_Witness ==
    /\ filesize = [kind |-> "int", v |-> 3]
    /\ split_size = 2
    /\ \E i \in 1..Len(requests) :
          requests[i] = [op |-> "get_filepart", start |-> 2, end |-> 2]

\* C23: filesize is called at most max_retry times and not again after it
\* gave a value; nothing is fetched or written unless it gave one; when
\* max_retry calls gave nothing the download has failed without a fetch.
C23_SizeBeforeFetch ==
    /\ Len(probed) <= max_retry
    /\ \A i \in 1..(Len(probed) - 1) : probed[i] = None
    /\ (requests # <<>> \/ writes # <<>>)
          => (probed # <<>> /\ probed[Len(probed)] # None)
    /\ (dl_pc # "probe" /\ Len(probed) = max_retry /\ probed[max_retry] = None)
          => (dl_pc = "done" /\ dl_result = "failed" /\ requests = <<>>)

\* C23 witness: the second of two probes gave the size and a chunk was asked
\* for
C23_Witness ==
    /\ max_retry = 2
    /\ Len(probed) = 2
    /\ probed[1] = None
    /\ probed[2] # None
    /\ requests # <<>>

\* C24: in a ranged download that ends well, a chunk that was not fetched
\* lies wholly within the bytes the destination held at the start.
C24_SkipOnlyCovered ==
    (dl_pc = "done" /\ dl_result \in {"ok", "skipped"} /\ ~no_split) =>
        LET datas == Datas(remote_size, split_size)
        IN \A j \in 1..Len(datas) :
              (\A i \in 1..Len(requests) : requests[i].start # datas[j][1])
                  => datas[j][2] <= initial_size

\* C25: every chunk written came in a response whose Content-Length is the
\* width of the chunk.
C25_LengthCheckedBeforeWrite ==
    \A i \in 1..Len(writes) :
        writes[i].op = "get_filepart" => writes[i].resp.content_length = writes[i].width

\* C25 witness: after a first chunk was written, a response with status 200
\* and a Content-Length one short of the width ended the download unwritten
C25_Witness ==
    /\ ChunkFailed
    /\ Len(writes) = 1
    /\ file_response # None
    /\ file_response.status = 200
    /\ file_response.content_length = Width(CurrentData) - 1

\* C26: the ranged download does not fail on a response with status 206 and
\* a Content-Length equal to the width of the chunk.
C26_PartialContentAccepted ==
    ~(/\ ChunkFailed
      /\ file_response # None
      /\ file_response.status = 206
      /\ file_response.content_length = Width(CurrentData))

\* C27: a ranged download that has failed leaves no bytes at the destination.
C27_NoPartialOutput ==
    (dl_pc = "done" /\ dl_result = "failed" /\ ~no_split /\ filesize # None)
        => (save_path = Missing \/ save_path.bytes = <<>>)

\* C28: a whole-file body is written only when its length is the one its
\* Content-Length header gives.
C28_WholeMismatchNotWritten ==
    \A i \in 1..Len(writes) :
        writes[i].op = "get" =>
            \/ writes[i].resp.content_length = -1
            \/ writes[i].resp.content_length = Len(writes[i].resp.content)

\* C29: the ranged download fails on a response whose Content-Length is not
\* the width of the chunk only when max_retry attempts have been made for
\* the chunk.
C29_RetryOnLengthMismatch ==
    (/\ ChunkFailed
     /\ file_response # None
     /\ file_response.status = 200
     /\ file_response.content_length # Width(CurrentData))
        => attempt >= max_retry

\* a probe submitted by check() has not completed
InFlight == \E i \in DOMAIN probes : probes[i] = Queued

\* C31: while a probe of check() is in flight the pool is the one the scan
\* started with and no step changes it, so a probe of index i reads the
\* endpoint that was at i; the pool changes only after the scan, by the
\* removal of a failed index.
C31_NoRemovalDuringScan ==
    [][/\ InFlight => (proxies = before /\ proxies' = proxies)
       /\ proxies' # proxies =>
             /\ chk_pc = "remove"
             /\ removing # <<>>
             /\ Head(removing) \in Range(failed)
             /\ proxies' = Del(proxies, Head(removing))]_vars

\* C31 witness: of three probes the one of index 0 has failed, another is
\* still in flight, and the pool still holds its three endpoints
C31_Witness ==
    /\ chk_pc = "scan"
    /\ failed = <<0>>
    /\ InFlight
    /\ Len(proxies) = 3
    /\ proxies = before

\* the position (from 0) an index of the old pool has after the removal of
\* the indices in drop
Shifted(i, drop) == i - Cardinality({j \in drop : j < i})

\* C32: whatever the order in which the probes completed, after the removal
\* the pool is the old pool without the entries at the failed indices: every
\* endpoint whose probe did not fail is still there, moved down by the
\* number of failed indices below it, and nothing else is.
C32_SurvivorsInOrder ==
    CheckDone =>
        LET drop == Range(failed)
        IN /\ proxies = Survivors(before, drop, 0)
           /\ Len(proxies) = Len(before) - Cardinality(drop)
           /\ \A i \in 0..(Len(before) - 1) :
                 i \notin drop => proxies[Shifted(i, drop) + 1] = before[i + 1]

\* C32 witness: the probe of index 2 failed before the probe of index 0, and
\* the endpoint that was at index 1 is the one left
C32_Witness ==
    /\ CheckDone
    /\ failed = <<2, 0>>
    /\ Len(before) = 3
    /\ proxies = <<before[2]>>

\* the ledger entry that governs index i: its timestamp, or none
Entry(ledger, i) ==
    IF i \in DOMAIN ledger THEN [kind |-> "entry", at |-> ledger[i]] ELSE None

\* the index (from 0) at which the pool lst holds the endpoint e
IndexOf(lst, e) == CHOOSE j \in 0..(Len(lst) - 1) : lst[j + 1] = e

\* C33: when the pool changes, every endpoint that is still in it is
\* governed by the ledger entry that governed it before: the entry has moved
\* with the endpoint.
C33_LedgerFollowsEndpoint ==
    [][proxies' # proxies =>
          \A i \in 0..(Len(proxies') - 1) :
              Entry(commit_time', i)
                  = Entry(commit_time, IndexOf(proxies, proxies'[i + 1]))]_vars

\* C34: no step takes an index out of the ledger, whether a call, a
\* punishment or a step of check(); and a thread whose index has no entry
\* leaves _wait_until_allowed's test without sleeping.
C34_LedgerNeverShrinks ==
    [][/\ DOMAIN commit_time \subseteq DOMAIN commit_time'
       /\ \A t \in Threads :
             (GateEnter(t) /\ idx[t] \notin DOMAIN commit_time) => ~slept'[t]]_vars

\* C34 witness: with a wait time of 1 three calls went through the three
\* indices without sleeping, check() then removed two endpoints, and the
\* ledger still holds the three entries
C34_Witness ==
    /\ wait_time = 1
    /\ DOMAIN commit_time = {0, 1, 2}
    /\ ~slept[1]
    /\ chk_pc = "returned"
    /\ Len(proxies) = 1

\* the get_filepart calls made for the chunk that starts at byte b
CallsFor(b) ==
    Cardinality({k \in 1..Len(requests) :
                    requests[k].op = "get_filepart" /\ requests[k].start = b})

\* C35: download_post makes at most max_retry filesize calls and, for every
\* chunk, at most max_retry get_filepart calls, whatever the dispatcher
\* returns or raises; and it comes to an end.
C35_BoundedCalls ==
    /\ [](/\ Len(probed) <= max_retry
          /\ ~no_split => \A b \in 0..MaxSize : CallsFor(b) <= max_retry)
    /\ <>(dl_pc = "done")

\* C35 witness: both filesize calls were used, then both chunks of a file of
\* two bytes took two attempts each, and the download is over
C35_Witness ==
    /\ dl_pc = "done"
    /\ max_retry = 2
    /\ Len(probed) = 2
    /\ CallsFor(0) = 2
    /\ CallsFor(1) = 2

\* C37: a split download that has succeeded leaves a destination as long as
\* the size it probed, and a second call for the same post makes no
\* get_filepart call and leaves the destination as the first call left it.
C37_RerunFetchesNothing ==
    /\ (dl_pc = "done" /\ dl_result = "ok" /\ ~no_split) =>
           (Exists(save_path) /\ Size(save_path) = filesize.v)
    /\ earlier # None =>
           /\ save_path = earlier.file
           /\ \A k \in 1..Len(requests) : requests[k].op # "get_filepart"

\* fetch_bulk of bulk index w has returned
FbReturned(w) == fb_pc[w] \in {"returned", "collected"}

\* the bulk_posts calls of w that raised
Failures(w) == Cardinality({k \in 1..Len(fb_calls[w]) : fb_calls[w][k].exc})

\* C36: fetch_bulk calls bulk_posts at most max_retries times; only its last
\* call can have succeeded, and then fetch_bulk has returned what that call
\* returned; the k-th sleep lasts 2^(k-1) seconds and there is one sleep per
\* failed call, but none after the call that used up max_retries; and when
\* every call has failed it returns the empty list.
C36_FetchBulkRetries ==
    \A w \in DOMAIN fb_pc :
        LET calls == fb_calls[w]
            n == Len(calls)
            succeeded == n > 0 /\ ~calls[n].exc
        IN /\ n <= max_retries
           /\ \A k \in 1..(n - 1) : calls[k].exc
           /\ succeeded => (FbReturned(w) /\ fb_result[w] = calls[n].posts)
           /\ \A k \in 1..Len(fb_waits[w]) : fb_waits[w][k] = 2 ^ (k - 1)
           /\ Len(fb_waits[w]) =
                 IF fb_pc[w] = "sleep" THEN Failures(w) - 1
                 ELSE IF FbReturned(w) /\ ~succeeded /\ n > 0 THEN Failures(w) - 1
                 ELSE Failures(w)
           /\ (FbReturned(w) /\ ~succeeded) => (n = max_retries /\ fb_result[w] = <<>>)
           /\ FbReturned(w) => (succeeded \/ n = max_retries)

\* C36 witness: with max_retries 3 the three calls for bulk index 1 raised,
\* fetch_bulk slept 1 and 2 seconds and returned the empty list
C36_Witness ==
    /\ max_retries = 3
    /\ 1 \in DOMAIN fb_pc
    /\ FbReturned(1)
    /\ Failures(1) = 3
    /\ fb_waits[1] = <<1, 2>>
    /\ fb_result[1] = <<>>

\* occurrences of the id in a list of ids
Times(ids, pid) == Cardinality({k \in 1..Len(ids) : ids[k] = pid})

\* C38: whatever the order in which the fetches complete and whatever ids
\* their answers hold, no id stands twice in all_posts or in the output
\* file, every id in them lies within [min_id, max_id], and the file holds
\* what all_posts holds when an output is given.
C38_CollectedOnce ==
    /\ \A pid \in PostIds : Times(all_posts, pid) <= 1 /\ Times(output_file, pid) <= 1
    /\ \A k \in 1..Len(all_posts) : min_id <= all_posts[k] /\ all_posts[k] <= max_id
    /\ \A k \in 1..Len(output_file) : min_id <= output_file[k] /\ output_file[k] <= max_id
    /\ output_file = IF output THEN all_posts ELSE <<>>
    /\ seen_ids = Range(all_posts)

\* C38 witness: the fetch of bulk index 3, which answered with the ids 3
\* and 2, was handed over before that of bulk index 1, which answered with
\* the ids 2 and 0: id 2 was kept once and id 0, below min_id, never
C38_Witness ==
    /\ main_pc = "done"
    /\ min_id = 1
    /\ max_id = 3
    /\ output
    /\ fb_result[1] = <<2, 0>>
    /\ fb_result[3] = <<3, 2>>
    /\ batch_counter = 2
    /\ all_posts = <<3, 2>>
    /\ output_file = <<3, 2>>

====
